---- MODULE Spec2Model ----
(***************************************************************************)
(* goloader: the relocation and runtime-integration engine of dymcode.go.  *)
(*                                                                         *)
(* One process p runs the pipeline ReadObjs -> Load -> Unload.  The        *)
(* Symbol Table Builder (relocSym) is a depth-first walk with an explicit  *)
(* call stack; Load is the sequence addSymAddrs, addItab, relocate (one    *)
(* step per relocation site), buildModule, relocateItab; Unload is         *)
(* runtime.GC, removeModule under modulesLock, Munmap.                     *)
(*                                                                         *)
(* Addresses are 64-bit Go ints.  They are kept as pairs <<hi, lo>> with   *)
(* value hi * 2^16 + lo and 0 <= lo < 2^16, so that the 32-bit range       *)
(* checks of the source are computed on exact values.                      *)
(***************************************************************************)
EXTENDS Integers, Sequences, FiniteSets, TLC

(***************************************************************************)
(* Bounds of the model.                                                    *)
(***************************************************************************)
\* processes that run ReadObjs/Load/Unload concurrently
NProcs == 2
\* relocation sites in the text symbol main.f of a compilation unit
MaxSites == 2

Procs == 1..NProcs

(***************************************************************************)
(* Program constants.                                                      *)
(***************************************************************************)
R_ADDR == 1
R_ADDRARM64 == 3
R_ADDROFF == 5
R_WEAKADDROFF == 6
R_CALL == 8
R_CALLARM == 9
R_CALLARM64 == 10
R_CALLIND == 11
R_PCREL == 15
R_TLS_LE == 16
R_METHODOFF == 24

Sxxx == 0
STEXT == 1
SRODATA == 2

PtrSize == 8

mov32bit == <<0, 0, 128, 210, 0, 0, 160, 242>>
armcode == <<4, 240, 31, 229, 0, 0, 0, 0>>
arm64code == <<67, 0, 0, 88, 96, 0, 31, 214, 0, 0, 0, 0, 0, 0, 0, 0>>
x86code == <<255, 37, 0, 0, 0, 0, 0, 0, 0, 0, 0, 0, 0, 0>>
movcode == 139
leacode == 141
cmplcode == 131
jmpcode == 233

\* the nil pointer among the nodes of the host module list
NIL == <<"nil", 0>>

(***************************************************************************)
(* Go ints as <<hi, lo>> pairs (value hi * 65536 + lo).                    *)
(***************************************************************************)
Limb == 256 * 256

WNorm(h, l) == <<h + (l \div Limb), l % Limb>>

WInt(n) == WNorm(0, n)

WAdd(a, b) == WNorm(a[1] + b[1], a[2] + b[2])

WSub(a, b) == WNorm(a[1] - b[1], a[2] - b[2])

WNeg(a) == WNorm(-a[1], -a[2])

WLt(a, b) == a[1] < b[1] \/ (a[1] = b[1] /\ a[2] < b[2])

WGt(a, b) == WLt(b, a)

\* Go's a / 4 on ints: truncation toward zero
WFloorDiv4(a) == <<a[1] \div 4, (a[1] % 4) * 16384 + (a[2] \div 4)>>

WDiv4(a) == IF a[1] < 0 THEN WNeg(WFloorDiv4(WNeg(a))) ELSE WFloorDiv4(a)

\* a * 4 for a small int a, as a Go int
WMul4(n) == WInt(4 * n)

WZero == <<0, 0>>
WMinusOne == <<-1, 65535>>

\* 0x7fffffff, -0x80000000, -0x8000000, 0x7FFFFF, -0x800000
W7fffffff == <<32767, 65535>>
WNeg80000000 == <<-32768, 0>>
WNeg8000000 == <<-2048, 0>>
W7FFFFF == <<127, 65535>>
WNeg800000 == <<-128, 0>>

(***************************************************************************)
(* encoding/binary.LittleEndian and Go slices of bytes.                    *)
(***************************************************************************)
Min(a, b) == IF a < b THEN a ELSE b

\* the 4 bytes of uint32(v), least significant first
U32Bytes(v) ==
    LET h == v[1] % Limb
    IN  <<v[2] % 256, v[2] \div 256, h % 256, h \div 256>>

\* the 8 bytes of uint64(v), least significant first
U64Bytes(v) ==
    LET top == IF v[1] < 0 THEN 255 ELSE 0
    IN  <<v[2] % 256, v[2] \div 256,
          v[1] % 256, (v[1] \div 256) % 256,
          (v[1] \div 65536) % 256, (v[1] \div 16777216) % 256,
          top, top>>

\* uint64(v) > 0xFFFFFFFF
Above32(v) == v[1] < 0 \/ v[1] >= Limb

\* the value of 4 little-endian bytes at 0-based offset off of b, as uint32
GetU32(b, off) ==
    <<b[off + 3] + 256 * b[off + 4], b[off + 1] + 256 * b[off + 2]>>

\* b with bs stored at 0-based offset off (off + Len(bs) <= Len(b))
Put(b, off, bs) ==
    [i \in 1..Len(b) |->
        IF i > off /\ i <= off + Len(bs) THEN bs[i - off] ELSE b[i]]

\* copy(dst[off:], src): as many bytes as fit (off <= Len(dst))
CopyAt(dst, off, src) ==
    Put(dst, off, SubSeq(src, 1, Min(Len(src), Len(dst) - off)))

Zeros(n) == [i \in 1..n |-> 0]
(***************************************************************************)
(* Go strings.  A symbol name is kept as a string; Chars gives its         *)
(* characters, on which strings.HasPrefix, TrimLeft and Trim compute.      *)
(***************************************************************************)
Chars(s) ==
    CASE s = "main.f" -> <<"m", "a", "i", "n", ".", "f">>
    [] s = "main.g" -> <<"m", "a", "i", "n", ".", "g">>
    [] s = "type.T" -> <<"t", "y", "p", "e", ".", "T">>
    [] s = "type.I" -> <<"t", "y", "p", "e", ".", "I">>
    [] s = "type.J" -> <<"t", "y", "p", "e", ".", "J">>
    [] s = "go.itab.T,I" -> <<"g", "o", ".", "i", "t", "a", "b", ".", "T", ",", "I">>
    [] s = "go.itab.T,J" -> <<"g", "o", ".", "i", "t", "a", "b", ".", "T", ",", "J">>
    [] s = "h1" -> <<"h", "1">>
    [] s = "h2" -> <<"h", "2">>
    [] s = "h3" -> <<"h", "3">>
    [] s = "h4" -> <<"h", "4">>
    [] s = "h5" -> <<"h", "5">>
    [] s = "h6" -> <<"h", "6">>
    [] s = "h7" -> <<"h", "7">>
    [] s = "h8" -> <<"h", "8">>
    [] s = "h9" -> <<"h", "9">>
    [] s = "h0" -> <<"h", "0">>
    [] s = "host.u" -> <<"h", "o", "s", "t", ".", "u">>
    [] s = "runtime.tlsg" -> <<"r", "u", "n", "t", "i", "m", "e", ".", "t", "l", "s", "g">>
    [] s = "(TLS)" -> <<"(", "T", "L", "S", ")">>
    [] s = "(R_CALLIND)" -> <<"(", "R", "_", "C", "A", "L", "L", "I", "N", "D", ")">>
    [] s = "callind" -> <<"c", "a", "l", "l", "i", "n", "d">>
    [] s = "type..importpath.os." -> <<"t", "y", "p", "e", ".", ".", "i", "m", "p", "o", "r", "t", "p", "a", "t", "h", ".", "o", "s", ".">>
    [] s = "type." -> <<"t", "y", "p", "e", ".">>
    [] s = "type.func" -> <<"t", "y", "p", "e", ".", "f", "u", "n", "c">>
    [] s = "go.itab" -> <<"g", "o", ".", "i", "t", "a", "b">>
    [] s = "type..importpath." -> <<"t", "y", "p", "e", ".", ".", "i", "m", "p", "o", "r", "t", "p", "a", "t", "h", ".">>

IsPrefixSeq(pre, s) ==
    /\ Len(pre) <= Len(s)
    /\ \A i \in 1..Len(pre) : pre[i] = s[i]

\* strings.HasPrefix(s, prefix)
HasPrefix(s, prefix) == IsPrefixSeq(Chars(prefix), Chars(s))

InSeq(c, cs) == \E i \in 1..Len(cs) : cs[i] = c

\* strings.TrimLeft(s, cutset): drop leading characters that occur in cutset
TrimLeftSeq(s, cutset) ==
    LET kept == {i \in 1..Len(s) : ~InSeq(s[i], cutset)}
    IN  IF kept = {} THEN <<>>
        ELSE SubSeq(s, CHOOSE i \in kept : \A j \in kept : i <= j, Len(s))

\* drop trailing characters that occur in cutset
TrimRightSeq(s, cutset) ==
    LET kept == {i \in 1..Len(s) : ~InSeq(s[i], cutset)}
    IN  IF kept = {} THEN <<>>
        ELSE SubSeq(s, 1, CHOOSE i \in kept : \A j \in kept : i >= j)

\* strings.Trim(s, cutset)
TrimSeq(s, cutset) == TrimRightSeq(TrimLeftSeq(s, cutset), cutset)

\* the byte of an ASCII character (lower-case letters and '.')
AsciiLower == <<"a", "b", "c", "d", "e", "f", "g", "h", "i", "j", "k", "l", "m",
                "n", "o", "p", "q", "r", "s", "t", "u", "v", "w", "x", "y", "z">>

Ord(c) ==
    IF c = "." THEN 46
    ELSE 96 + (CHOOSE i \in 1..Len(AsciiLower) : AsciiLower[i] = c)

\* []byte(s)
StrBytes(cs) == [i \in 1..Len(cs) |-> Ord(cs[i])]

TLSNAME == "(TLS)"
R_CALLIND_NAME == "(R_CALLIND)"
(***************************************************************************)
(* The host process and the compilation units handed to ReadObjs.          *)
(***************************************************************************)
\* the address Mmap returns to process p (0xC0000p0000)
MmapBase(p) == <<12582912 + p, 0>>

\* the caller's map of host-resident symbols: functions at chosen distances
\* from the first relocation site of the first region, a function in the
\* host's low text, data one page below, one page above and four pages above
\* the first region's first page, and an interface type descriptor
HostSyms == {"h1", "h2", "h3", "h4", "h5", "h6", "h7", "h8", "h9", "h0", "type.I"}

HostAddr(name) ==
    LET site == WAdd(MmapBase(1), WInt(6))
    IN  CASE name = "h1" -> WAdd(site, W7fffffff)
          [] name = "h2" -> WAdd(site, <<32768, 0>>)
          [] name = "h3" -> WAdd(site, WNeg80000000)
          [] name = "h4" -> WAdd(site, <<-32769, 65535>>)
          [] name = "h5" -> WAdd(site, <<-2049, 65535>>)
          [] name = "h6" -> WAdd(site, <<81920, 0>>)
          [] name = "h7" -> <<64, 4096>>
          [] name = "h8" -> WAdd(MmapBase(1), WInt(4660))
          [] name = "h9" -> WAdd(MmapBase(1), WInt(16400))
          [] name = "h0" -> WSub(MmapBase(1), WInt(4080))
          [] name = "type.I" -> <<76, 0>>

\* what the host runtime's getitab may return: no match, a table near the
\* region, a table in the host heap far from it
ItabPtrs(p) == {WZero, WAdd(MmapBase(p), <<16, 0>>), <<192, 256>>}

\* the value the host's thread-local mechanism registers for the TLS slot
TLSValue == <<0, 65520>>

\* one instruction of main.f: two leading bytes, then the bytes of the
\* relocation site
SiteChoices ==
    {[pre |-> <<144, 232>>, site |-> <<0, 0, 0, 0>>, Type |-> R_CALL, Sym |-> h,
      Add |-> 0] :
        h \in {"h1", "h2", "h3", "h4", "h5", "h6", "h7", "host.u",
               "main.g", "main.f"}}
    \cup {[pre |-> <<141, 5>>, site |-> <<0, 0, 0, 0>>, Type |-> R_PCREL, Sym |-> h,
           Add |-> 0] :
        h \in {"type.T", "h6", "h7", "go.itab.T,I", "go.itab.T,J"}}
    \cup {[pre |-> <<15, 16>>, site |-> <<0, 0, 0, 0>>, Type |-> R_PCREL,
           Sym |-> "h6", Add |-> 0],
          [pre |-> <<31, 32>>, site |-> <<0, 0, 0, 148>>, Type |-> R_CALLARM64,
           Sym |-> "h6", Add |-> 0],
          [pre |-> <<31, 32>>, site |-> <<0, 0, 0, 235>>, Type |-> R_CALLARM,
           Sym |-> "h6", Add |-> 0],
          [pre |-> <<31, 32>>, site |-> <<0, 0, 0, 144, 0, 0, 0, 145>>,
           Type |-> R_ADDRARM64, Sym |-> "type.T", Add |-> 0],
          [pre |-> <<31, 32>>, site |-> <<0, 0, 0, 144, 0, 0, 0, 145>>,
           Type |-> R_ADDRARM64, Sym |-> "h8", Add |-> 0],
          [pre |-> <<31, 32>>, site |-> <<0, 0, 0, 144, 0, 0, 0, 145>>,
           Type |-> R_ADDRARM64, Sym |-> "h9", Add |-> 0],
          [pre |-> <<31, 32>>, site |-> <<0, 0, 0, 144, 0, 0, 0, 145>>,
           Type |-> R_ADDRARM64, Sym |-> "h0", Add |-> 0],
          [pre |-> <<139, 12>>, site |-> <<0, 0, 0, 0>>, Type |-> R_TLS_LE,
           Sym |-> "runtime.tlsg", Add |-> 0],
          [pre |-> <<255, 208>>, site |-> <<>>, Type |-> R_CALLIND,
           Sym |-> "callind", Add |-> 0],
          [pre |-> <<141, 5>>, site |-> <<0, 0, 0, 0>>, Type |-> R_ADDROFF,
           Sym |-> "type.T", Add |-> 0],
          [pre |-> <<72, 141>>, site |-> <<0, 0, 0, 0>>, Type |-> R_PCREL,
           Sym |-> "type..importpath.os.", Add |-> 0],
          [pre |-> <<144, 144>>, site |-> <<0, 0, 0, 0>>, Type |-> 99,
           Sym |-> "main.g", Add |-> 0]}

RECURSIVE SitesCode(_)
SitesCode(sites) ==
    IF sites = <<>> THEN <<>>
    ELSE Head(sites).pre \o Head(sites).site \o SitesCode(Tail(sites))

\* the relocations of main.f: each site's offset is where its bytes start
SitesReloc(sites) ==
    [k \in 1..Len(sites) |->
        [Offset |-> Len(SitesCode(SubSeq(sites, 1, k - 1))) + Len(sites[k].pre),
         Size |-> Len(sites[k].site), Sym |-> sites[k].Sym,
         Type |-> sites[k].Type, Add |-> sites[k].Add]]

ItabSymbol(name, inter) ==
    [Name |-> name, Kind |-> SRODATA, DupOK |-> TRUE, Data |-> Zeros(16),
     Reloc |-> <<[Offset |-> 0, Size |-> 8, Sym |-> inter, Type |-> R_ADDR, Add |-> 0],
                 [Offset |-> 8, Size |-> 8, Sym |-> "type.T", Type |-> R_ADDR, Add |-> 0]>>]

\* the object parser's output for one compilation unit: the symbols in file
\* order and the symbol of each name
Unit(sites) ==
    [Syms |-> <<"main.f", "main.g", "type.T", "go.itab.T,I", "go.itab.T,J">>,
     allSyms |->
        [n \in {"main.f", "main.g", "type.T", "go.itab.T,I", "go.itab.T,J"} |->
            CASE n = "main.f" ->
                    [Name |-> n, Kind |-> STEXT, DupOK |-> FALSE,
                     Data |-> SitesCode(sites), Reloc |-> SitesReloc(sites)]
              [] n = "main.g" ->
                    [Name |-> n, Kind |-> STEXT, DupOK |-> TRUE,
                     Data |-> <<144, 232, 0, 0, 0, 0>>,
                     Reloc |-> <<[Offset |-> 2, Size |-> 4, Sym |-> "main.f",
                                  Type |-> R_CALL, Add |-> 0]>>]
              [] n = "type.T" ->
                    [Name |-> n, Kind |-> SRODATA, DupOK |-> TRUE,
                     Data |-> <<25, 0, 0, 0>>,
                     Reloc |-> <<[Offset |-> 0, Size |-> 4, Sym |-> "type.T",
                                  Type |-> R_ADDROFF, Add |-> 0]>>]
              [] n = "go.itab.T,I" -> ItabSymbol(n, "type.I")
              [] n = "go.itab.T,J" -> ItabSymbol(n, "type.J")]]

\* the instructions that may follow the first one of main.f
MoreChoices ==
    {c \in SiteChoices :
        \/ c.Type = R_CALL /\ c.Sym \in {"h6", "h7", "main.g"}
        \/ c.Type = R_PCREL /\ c.pre = <<141, 5>> /\ c.Sym \in {"h6", "go.itab.T,I"}
        \/ c.Type = R_PCREL /\ c.Sym = "type..importpath.os."
        \/ c.Type = R_TLS_LE
        \/ c.Type = R_CALLARM64}

\* main.f with one to n sites
SiteSeqs(n) ==
    {<<a>> \o rest :
        a \in SiteChoices, rest \in UNION {[1..k -> MoreChoices] : k \in 0..(n - 1)}}

(***************************************************************************)
(* State.                                                                  *)
(***************************************************************************)
VARIABLES
    pc,              \* pc[p]: where process p stands in ReadObjs/Load/Unload
    obj,             \* obj[p]: the compilation unit p reads
    symPtr,          \* symPtr[p]: the host symbol map p passes to Load
    reloc,           \* reloc[p]: the CodeReloc built by ReadObjs, loaded by Load
    symMap,          \* symMap[p]: name -> index in reloc[p].Syms
    stack,           \* stack[p]: the active relocSym calls, innermost last
    rootIdx,         \* rootIdx[p]: ReadObjs' position in obj.Syms
    seg,             \* seg[p]: Load's segment
    relocPos,        \* relocPos[p]: relocate's position <<symbol, relocation>>
    codeByte,        \* codeByte[p]: the bytes of the region Mmap returned
    codeModule,      \* codeModule[p]: the CodeModule Load builds
    module,          \* module[p]: the moduledata buildModule builds
    ret,             \* ret[p]: what Load returned
    next,            \* the next pointer of every node of the host module list
    modules,         \* the set modules
    modulesLock,     \* <<p>> while p holds modulesLock, else <<>>
    hist             \* hist[p]: what p has done, for stating the properties

vars == <<pc, obj, symPtr, reloc, symMap, stack, rootIdx, seg, relocPos, codeByte,
          codeModule, module, ret, next, modules, modulesLock, hist>>

buildVars == <<reloc, symMap, stack, rootIdx>>
loadVars == <<seg, relocPos, codeByte, codeModule, module, ret>>
regVars == <<next, modules, modulesLock>>
(***************************************************************************)
(* Symbol Table Builder: ReadObjs, addSym, relocSym.                       *)
(***************************************************************************)
InMap(m, k) == k \in DOMAIN m

\* an interning that appends an entry whether or not the name is known
addSymAlwaysAppend(sm, symArray, rsym) ==
    [offset |-> Len(symArray),
     symArray |-> Append(symArray, rsym),
     symMap |-> [n \in DOMAIN sm \cup {rsym.Name} |->
                    IF n = rsym.Name THEN Len(symArray) ELSE sm[n]]]

\* addSym: intern rsym.Name; a new name is appended, a known one overwritten
addSym(sm, symArray, rsym) ==
    IF ~InMap(sm, rsym.Name)
    THEN [offset |-> Len(symArray),
          symArray |-> Append(symArray, rsym),
          symMap |-> sm @@ (rsym.Name :> Len(symArray))]
    ELSE [offset |-> sm[rsym.Name],
          symArray |-> [symArray EXCEPT ![sm[rsym.Name] + 1] = rsym],
          symMap |-> sm]

\* readFuncData: one function-table entry per text symbol, naming its symbol
readFuncData(mod, curSymOffset) ==
    [mod EXCEPT !.ftab = Append(@, [entry |-> curSymOffset])]

\* relocSym up to its relocation loop, for a symbol not yet interned: intern
\* it, append its bytes to its blob and record the offset
relocSymEnter(R, sm, curSym) ==
    LET rsym0 == [Name |-> curSym.Name, Kind |-> curSym.Kind, Offset |-> 0,
                  Reloc |-> <<>>]
        a1 == addSym(sm, R.Syms, rsym0)
        rsym == [rsym0 EXCEPT !.Offset =
                    IF curSym.Kind = STEXT THEN Len(R.Code) ELSE Len(R.Data)]
        a2 == addSym(a1.symMap, a1.symArray, rsym)
    IN  [reloc |->
            IF curSym.Kind = STEXT
            THEN [R EXCEPT !.Code = @ \o curSym.Data,
                           !.Mod = readFuncData(@, a1.offset),
                           !.Syms = a2.symArray]
            ELSE [R EXCEPT !.Data = @ \o curSym.Data, !.Syms = a2.symArray],
         symMap |-> a2.symMap,
         frame |-> [sym |-> curSym, i |-> 1, rsym |-> rsym,
                    curSymOffset |-> a1.offset]]

\* the import path a "type..importpath." name stands for, as bytes with a
\* terminating zero
ImportPathBytes(name) ==
    Append(StrBytes(TrimSeq(TrimLeftSeq(Chars(name), Chars("type..importpath.")),
                            <<".">>)), 0)

\* the name relocSym interns for the target of re when no unit defines it
ExternalName(re) ==
    IF re.Type = R_CALLIND THEN R_CALLIND_NAME
    ELSE IF re.Type = R_TLS_LE THEN TLSNAME
    ELSE re.Sym

\* relocSym's branch for a relocation target that no compilation unit defines
relocSymExternal(R, sm, re) ==
    LET n1 == IF re.Type = R_TLS_LE THEN TLSNAME ELSE re.Sym
        o1 == IF re.Type = R_TLS_LE THEN re.Offset ELSE -1
        n2 == IF re.Type = R_CALLIND THEN R_CALLIND_NAME ELSE n1
        o2 == IF re.Type = R_CALLIND THEN 0 ELSE o1
        isPath == HasPrefix(n2, "type..importpath.")
        exSym == [Name |-> n2, Kind |-> Sxxx,
                  Offset |-> IF isPath THEN Len(R.Data) ELSE o2, Reloc |-> <<>>]
        data == IF isPath THEN R.Data \o ImportPathBytes(n2) ELSE R.Data
        a == addSym(sm, R.Syms, exSym)
    IN  [reloc |-> [R EXCEPT !.Data = data, !.Syms = a.symArray],
         symMap |-> a.symMap,
         symOff |-> a.offset]

\* the Reloc relocSym records for parser relocation re of the symbol rsym
RelocEntry(re, rsym, symOff) ==
    [Offset |-> re.Offset + rsym.Offset, SymOff |-> symOff, Type |-> re.Type,
     Size |-> re.Size, Add |-> re.Add]

Top(p) == stack[p][Len(stack[p])]

\* the frame f after its current relocation resolved to symOff
FrameAdvance(f, symOff) ==
    [f EXCEPT !.rsym.Reloc = Append(@, RelocEntry(f.sym.Reloc[f.i], f.rsym, symOff)),
              !.i = @ + 1]

IsRoot(sym) ==
    \/ sym.Kind = STEXT /\ sym.DupOK = FALSE
    \/ sym.Kind = SRODATA /\ HasPrefix(sym.Name, "type.")

Step(h) == [h EXCEPT !.steps = @ + 1]

\* what relocSym did when a relocation named name: whether the name was
\* interned before, the index it had and the index returned, and the
\* CodeReloc before (R0) and after (R1)
LogIntern(h, name, sm, R0, R1, idx) ==
    [h EXCEPT !.interns = Append(@,
        [name |-> name,
         known |-> InMap(sm, name),
         idxBefore |-> IF InMap(sm, name) THEN sm[name] ELSE -1,
         idx |-> idx,
         lenBefore |-> Len(R0.Syms),
         lenAfter |-> Len(R1.Syms),
         offBefore |-> IF InMap(sm, name) THEN R0.Syms[sm[name] + 1].Offset ELSE -1,
         offAfter |-> R1.Syms[idx + 1].Offset,
         codeBefore |-> R0.Code, codeAfter |-> R1.Code,
         dataBefore |-> R0.Data, dataAfter |-> R1.Data])]

LogAppend(h, curSym, R) ==
    [h EXCEPT !.appends = Append(@,
        [name |-> curSym.Name,
         blob |-> IF curSym.Kind = STEXT THEN "Code" ELSE "Data",
         off |-> IF curSym.Kind = STEXT THEN Len(R.Code) ELSE Len(R.Data),
         bytes |-> curSym.Data])]

\* ReadObjs' loop: the next symbol of the unit; a root not yet interned
\* starts a relocSym call
ReadObjsNext(p) ==
    /\ pc[p] = "ReadObjs"
    /\ stack[p] = <<>>
    /\ rootIdx[p] <= Len(obj[p].Syms)
    /\ LET sym == obj[p].allSyms[obj[p].Syms[rootIdx[p]]]
       IN  IF IsRoot(sym) /\ ~InMap(symMap[p], sym.Name)
           THEN LET e == relocSymEnter(reloc[p], symMap[p], sym)
                IN  /\ reloc' = [reloc EXCEPT ![p] = e.reloc]
                    /\ symMap' = [symMap EXCEPT ![p] = e.symMap]
                    /\ stack' = [stack EXCEPT ![p] = <<e.frame>>]
                    /\ hist' = [hist EXCEPT ![p] = Step(LogAppend(@, sym, reloc[p]))]
           ELSE /\ hist' = [hist EXCEPT ![p] = Step(@)]
                /\ UNCHANGED <<reloc, symMap, stack>>
    /\ rootIdx' = [rootIdx EXCEPT ![p] = @ + 1]
    /\ UNCHANGED <<pc, obj, symPtr, loadVars, regVars>>

\* relocSym's loop at a relocation whose target is defined and not yet
\* interned: the recursive call
RelocSymRecurse(p) ==
    /\ pc[p] = "ReadObjs"
    /\ stack[p] # <<>>
    /\ Top(p).i <= Len(Top(p).sym.Reloc)
    /\ LET re == Top(p).sym.Reloc[Top(p).i]
       IN  /\ InMap(obj[p].allSyms, re.Sym)
           /\ ~InMap(symMap[p], re.Sym)
           /\ LET e == relocSymEnter(reloc[p], symMap[p], obj[p].allSyms[re.Sym])
              IN  /\ reloc' = [reloc EXCEPT ![p] = e.reloc]
                  /\ symMap' = [symMap EXCEPT ![p] = e.symMap]
                  /\ stack' = [stack EXCEPT ![p] = Append(@, e.frame)]
                  /\ hist' = [hist EXCEPT ![p] =
                        Step(LogAppend(@, obj[p].allSyms[re.Sym], reloc[p]))]
    /\ UNCHANGED <<pc, obj, symPtr, rootIdx, loadVars, regVars>>

\* relocSym's loop at a relocation whose target is already interned: the
\* call returns the interned index at once
RelocSymVisited(p) ==
    /\ pc[p] = "ReadObjs"
    /\ stack[p] # <<>>
    /\ Top(p).i <= Len(Top(p).sym.Reloc)
    /\ LET re == Top(p).sym.Reloc[Top(p).i]
       IN  /\ InMap(obj[p].allSyms, re.Sym)
           /\ InMap(symMap[p], re.Sym)
           /\ stack' = [stack EXCEPT ![p][Len(stack[p])] =
                            FrameAdvance(@, symMap[p][re.Sym])]
    /\ hist' = [hist EXCEPT ![p] =
            Step(LogIntern(@, Top(p).sym.Reloc[Top(p).i].Sym, symMap[p], reloc[p],
                           reloc[p], symMap[p][Top(p).sym.Reloc[Top(p).i].Sym]))]
    /\ UNCHANGED <<pc, obj, symPtr, reloc, symMap, rootIdx, loadVars, regVars>>

\* relocSym's loop at a relocation whose target no unit defines
RelocSymExternal(p) ==
    /\ pc[p] = "ReadObjs"
    /\ stack[p] # <<>>
    /\ Top(p).i <= Len(Top(p).sym.Reloc)
    /\ LET re == Top(p).sym.Reloc[Top(p).i]
       IN  /\ ~InMap(obj[p].allSyms, re.Sym)
           /\ LET x == relocSymExternal(reloc[p], symMap[p], re)
              IN  /\ reloc' = [reloc EXCEPT ![p] = x.reloc]
                  /\ symMap' = [symMap EXCEPT ![p] = x.symMap]
                  /\ stack' = [stack EXCEPT ![p][Len(stack[p])] =
                                  FrameAdvance(@, x.symOff)]
           /\ LET recorded == stack'[p][Len(stack[p])].rsym.Reloc
              IN  hist' = [hist EXCEPT ![p] =
                        Step(LogIntern(@, ExternalName(re), symMap[p], reloc[p],
                                       reloc'[p], recorded[Len(recorded)].SymOff))]
    /\ UNCHANGED <<pc, obj, symPtr, rootIdx, loadVars, regVars>>

\* relocSym after its loop: store the relocations and return the index to
\* the caller, which records its own relocation
RelocSymReturn(p) ==
    /\ pc[p] = "ReadObjs"
    /\ stack[p] # <<>>
    /\ Top(p).i > Len(Top(p).sym.Reloc)
    /\ LET f == Top(p)
           n == Len(stack[p])
       IN  /\ reloc' = [reloc EXCEPT ![p].Syms[f.curSymOffset + 1].Reloc = f.rsym.Reloc]
           /\ stack' = [stack EXCEPT ![p] =
                IF n = 1 THEN <<>>
                ELSE [SubSeq(@, 1, n - 1) EXCEPT ![n - 1] =
                        FrameAdvance(@, f.curSymOffset)]]
    /\ hist' = [hist EXCEPT ![p] = Step(@)]
    /\ UNCHANGED <<pc, obj, symPtr, symMap, rootIdx, loadVars, regVars>>

\* ReadObjs returns the CodeReloc; the caller goes on to Load it
ReadObjsReturn(p) ==
    /\ pc[p] = "ReadObjs"
    /\ stack[p] = <<>>
    /\ rootIdx[p] > Len(obj[p].Syms)
    /\ pc' = [pc EXCEPT ![p] = "Load"]
    /\ hist' = [hist EXCEPT ![p] = Step([@ EXCEPT !.image = reloc[p]])]
    /\ UNCHANGED <<obj, symPtr, buildVars, loadVars, regVars>>
(***************************************************************************)
(* uint32 arithmetic on <<hi16, lo16>> pairs.                              *)
(***************************************************************************)
RECURSIVE BitOr(_, _)
BitOr(a, b) ==
    IF a = 0 THEN b
    ELSE IF b = 0 THEN a
    ELSE (IF a % 2 = 1 \/ b % 2 = 1 THEN 1 ELSE 0) + 2 * BitOr(a \div 2, b \div 2)

Or32(a, b) == <<BitOr(a[1], b[1]), BitOr(a[2], b[2])>>

\* uint32(v) of a Go int
U32(v) == <<v[1] % Limb, v[2]>>

\* uint32(n) of a small non-negative int
U32Int(n) == <<n \div Limb, n % Limb>>

\* x << k on uint32, 0 <= k < 16
Shl32(x, k) ==
    LET lo == x[2] * (2 ^ k)
        hi == x[1] * (2 ^ k) + (lo \div Limb)
    IN  <<hi % Limb, lo % Limb>>

CanPut(b, off, n) == off >= 0 /\ off + n <= Len(b)

(***************************************************************************)
(* relocADRP on the slice b[off:]: patch the adrp/add pair at pcAddr to     *)
(* compute symAddr.                                                        *)
(***************************************************************************)
relocADRP(b, off, pcAddr, symAddr) ==
    LET pcPage == <<pcAddr[1], pcAddr[2] - (pcAddr[2] % 4096)>>
        lowOff == symAddr[2] % 4096
        symPage == WSub(symAddr, WInt(lowOff))
        pageOff == WSub(symPage, pcPage)
        adrp == GetU32(b, off)
    IN  IF ~CanPut(b, off, 4) THEN [b |-> b, panic |-> TRUE]
        ELSE IF WGt(pageOff, W7fffffff) \/ WLt(pageOff, WNeg80000000)
        THEN LET sym32 == U32(symAddr)
                 movlow == Or32(Or32(<<0, adrp[2] % 32>>, GetU32(mov32bit, 0)),
                                Shl32(<<0, sym32[2]>>, 5))
                 movhigh == Or32(Or32(<<0, adrp[2] % 32>>, GetU32(mov32bit, 4)),
                                 Shl32(<<0, sym32[1]>>, 5))
                 b1 == Put(b, off, U32Bytes(movlow))
             IN  IF CanPut(b, off + 4, 4)
                 THEN [b |-> Put(b1, off + 4, U32Bytes(movhigh)), panic |-> FALSE]
                 ELSE [b |-> b1, panic |-> TRUE]
        ELSE LET lo2 == (pageOff[2] \div 4096) % 4
                 hi19 == ((pageOff[1] % 262144) * 2 + (pageOff[2] \div 32768)) % 524288
                 pageAnd == Or32(<<lo2 * 8192, 0>>, Shl32(U32Int(hi19), 5))
                 b1 == Put(b, off, U32Bytes(Or32(adrp, pageAnd)))
             IN  IF CanPut(b, off + 4, 4)
                 THEN [b |-> Put(b1, off + 4,
                                 U32Bytes(Or32(GetU32(b1, off + 4),
                                               U32Int(lowOff * 1024)))),
                       panic |-> FALSE]
                 ELSE [b |-> b1, panic |-> TRUE]
(***************************************************************************)
(* Relocation Engine.  A state S of one Load is the record                 *)
(*   R      the CodeReloc (code.Code, code.Data, code.Syms, code.Mod)      *)
(*   sg     the segment                                                    *)
(*   cm     the CodeModule                                                 *)
(*   cb     the bytes of the mapped region (seg.codeByte)                  *)
(*   sp     the host symbol map                                            *)
(*   panic  a bounds check of the Go runtime failed                        *)
(*   spill  an unchecked pointer store wrote past the end of its slice     *)
(***************************************************************************)
\* strWrite(&seg.err, ...)
Diag(S, msg) == [S EXCEPT !.sg.err = Append(@, msg)]

Panic(S) == [S EXCEPT !.panic = TRUE]

Blob(R, isText) == IF isText THEN R.Code ELSE R.Data

SetBlob(S, isText, b) ==
    IF isText THEN [S EXCEPT !.R.Code = b] ELSE [S EXCEPT !.R.Data = b]

\* binary.LittleEndian.PutUint32(blob[off:], v) on a blob of the CodeReloc
PutBlob32(S, isText, off, v) ==
    IF CanPut(Blob(S.R, isText), off, 4)
    THEN SetBlob(S, isText, Put(Blob(S.R, isText), off, U32Bytes(v)))
    ELSE Panic(S)

\* *(*uintptr)(unsafe.Pointer(&b[off:][0])) = v: only the first byte is
\* bounds checked; PtrSize bytes are stored
UnsafePtrPut(b, off, v) == CopyAt(b, off, U64Bytes(v))

\* a trampoline literal cut to the low 32 bits of the target address
StubLiteralLow32(lit) == U32Bytes(lit)

\* the bytes of the full target address a trampoline holds: 8 if the address
\* needs more than 32 bits, else 4
StubLiteral(lit) == IF Above32(lit) THEN U64Bytes(lit) ELSE U32Bytes(lit)

\* R_CALL and R_PCREL
relocPCRel(S, curSym, loc, sym) ==
    LET isText == curSym.Kind = STEXT
        relocByte == Blob(S.R, isText)
        addrBase == IF isText THEN S.sg.codeBase ELSE S.sg.dataBase
        target == S.sg.symAddrs[loc.SymOff + 1]
        after == WAdd(addrBase, WInt(loc.Offset + loc.Size))
        offset == WAdd(WSub(target, after), WInt(loc.Add))
        lit == WAdd(target, WInt(loc.Add))
        stubOff == WSub(WAdd(S.sg.codeBase, WInt(S.sg.offset)), after)
        rb0 == relocByte[loc.Offset - 1]
        rb1 == relocByte[loc.Offset]
    IN  IF WGt(offset, W7fffffff) \/ WLt(offset, WNeg8000000)
        THEN IF S.sg.offset + 8 > S.sg.maxCodeLen
             THEN Diag(S, <<"len overflow", "sym:", sym.Name>>)
             ELSE IF loc.Offset - 2 < 0 \/ loc.Offset - 2 > Len(relocByte)
             THEN Panic(S)
             ELSE IF loc.Type = R_CALL
             THEN LET S1 == [S EXCEPT !.cb = CopyAt(@, S.sg.offset, x86code)]
                      S2 == PutBlob32(S1, isText, loc.Offset, stubOff)
                      n == IF Above32(lit) THEN 8 ELSE 4
                  IN  IF S2.panic THEN S2
                      ELSE IF ~CanPut(S2.cb, S.sg.offset + 6, n) THEN Panic(S2)
                      ELSE [S2 EXCEPT
                              !.cb = Put(@, S.sg.offset + 6, StubLiteral(lit)),
                              !.sg.offset = @ + Len(x86code)]
             ELSE IF loc.Offset > Len(relocByte) THEN Panic(S)
             ELSE IF rb0 = leacode \/ rb0 = movcode \/ rb0 = cmplcode \/ rb1 = jmpcode
             THEN LET S1 == PutBlob32(S, isText, loc.Offset, stubOff)
                      S2 == IF rb0 = leacode
                            THEN SetBlob(S1, isText,
                                         Put(Blob(S1.R, isText), loc.Offset - 2,
                                             <<movcode>>))
                            ELSE S1
                  IN  IF S1.panic THEN S1
                      ELSE [S2 EXCEPT !.cb = Put(@, S.sg.offset, StubLiteral(lit)),
                                      !.sg.offset = @ + (IF Above32(lit) THEN 12 ELSE 8)]
             ELSE PutBlob32(Diag(S, <<"offset overflow sym:", sym.Name>>),
                            isText, loc.Offset, offset)
        ELSE PutBlob32(S, isText, loc.Offset, offset)

\* b[0], b[1], b[2] = the low three bytes of uint32(v), b = code.Code[off:]
PutCode24(S, off, v) ==
    IF CanPut(S.R.Code, off, 3)
    THEN [S EXCEPT !.R.Code = Put(@, off, SubSeq(U32Bytes(v), 1, 3))]
    ELSE Panic(S)

\* R_CALLARM and R_CALLARM64
relocCallArm(S, loc, sym) ==
    LET isArm == loc.Type = R_CALLARM
        masked == loc.Add % 16777216
        add == IF isArm THEN (IF masked > 256 THEN 0 ELSE masked + 2) ELSE loc.Add
        pcOff == IF isArm THEN 8 ELSE 0
        target == S.sg.symAddrs[loc.SymOff + 1]
        offset == WDiv4(WAdd(WSub(target,
                                  WAdd(S.sg.codeBase, WInt(loc.Offset + pcOff))),
                             WInt(add)))
        align == S.sg.offset % 4
        at == IF align # 0 THEN S.sg.offset + (4 - align) ELSE S.sg.offset
        stub == IF isArm THEN armcode ELSE arm64code
        jmpLocOff == IF isArm THEN 4 ELSE 8
    IN  IF WGt(offset, W7FFFFF) \/ WLt(offset, WNeg800000)
        THEN IF S.sg.offset + 4 > S.sg.maxCodeLen
             THEN Diag(S, <<"len overflow", "sym:", sym.Name>>)
             ELSE LET S1 == PutCode24([S EXCEPT !.sg.offset = at], loc.Offset,
                                      WDiv4(WInt(at - (loc.Offset + pcOff))))
                  IN  IF S1.panic THEN S1
                      ELSE IF at > Len(S1.cb) THEN Panic(S1)
                      ELSE LET S2 == [S1 EXCEPT !.cb = CopyAt(@, at, stub)]
                           IN  IF at + jmpLocOff >= Len(S2.cb) THEN Panic(S2)
                               ELSE [S2 EXCEPT
                                       !.cb = UnsafePtrPut(@, at + jmpLocOff,
                                                  WAdd(target, WMul4(add))),
                                       !.spill = @ \/ at + jmpLocOff + PtrSize > Len(S2.cb),
                                       !.sg.offset = at + Len(stub)]
        ELSE PutCode24(S, loc.Offset, offset)

\* the body of relocate's inner loop for relocation loc of symbol curSym
relocateSite(S, curSym, loc) ==
    LET sym == S.R.Syms[loc.SymOff + 1]
        addr == S.sg.symAddrs[loc.SymOff + 1]
        isText == curSym.Kind = STEXT
    IN  IF addr = WMinusOne THEN S
        ELSE IF addr = WZero /\ HasPrefix(sym.Name, "go.itab")
        THEN [S EXCEPT !.cm.itabs = Append(@,
                [locOff |-> loc.Offset,
                 symOff |-> IF InMap(S.sg.itabMap, sym.Name)
                            THEN S.sg.itabMap[sym.Name] ELSE 0,
                 size |-> loc.Size, locType |-> loc.Type, add |-> loc.Add])]
        ELSE CASE loc.Type = R_TLS_LE ->
                    PutBlob32(S, TRUE, loc.Offset,
                              IF InMap(S.sp, TLSNAME) THEN S.sp[TLSNAME] ELSE WZero)
               [] loc.Type \in {R_CALL, R_PCREL} -> relocPCRel(S, curSym, loc, sym)
               [] loc.Type \in {R_CALLARM, R_CALLARM64} -> relocCallArm(S, loc, sym)
               [] loc.Type = R_ADDRARM64 ->
                    LET S1 == IF isText THEN S ELSE Diag(S, <<"not in code?">>)
                        r == relocADRP(S1.R.Code, loc.Offset,
                                       WAdd(S1.sg.codeBase, WInt(loc.Offset)), addr)
                    IN  IF loc.Offset > Len(S1.R.Code) THEN Panic(S1)
                        ELSE [S1 EXCEPT !.R.Code = r.b, !.panic = r.panic]
               [] loc.Type = R_ADDR ->
                    IF loc.Offset >= Len(Blob(S.R, isText)) THEN Panic(S)
                    ELSE [SetBlob(S, isText,
                                  UnsafePtrPut(Blob(S.R, isText), loc.Offset,
                                               WAdd(addr, WInt(loc.Add))))
                          EXCEPT !.spill = @ \/ loc.Offset + PtrSize
                                                  > Len(Blob(S.R, isText))]
               [] loc.Type = R_CALLIND -> S
               [] loc.Type \in {R_ADDROFF, R_WEAKADDROFF, R_METHODOFF} ->
                    PutBlob32(IF isText
                              THEN Diag(S, <<"impossible!", sym.Name,
                                             "locate on code segment">>)
                              ELSE S,
                              FALSE, loc.Offset,
                              WAdd(WSub(addr, S.sg.codeBase), WInt(loc.Add)))
               [] OTHER ->
                    Diag(S, <<"unknown reloc type:", ToString(loc.Type), sym.Name>>)
(***************************************************************************)
(* Address Resolver and Interface-Table Synthesizer.                       *)
(***************************************************************************)
\* RegTLS: the host registers the thread-local slot under TLSNAME
RegTLS(sp, offset) == [n \in DOMAIN sp \cup {TLSNAME} |-> IF n = TLSNAME THEN TLSValue ELSE sp[n]]

MapSet(m, k, v) == [n \in DOMAIN m \cup {k} |-> IF n = k THEN v ELSE m[n]]

\* the body of addSymAddrs' loop for symbol i (0-based)
addSymAddr(S, i) ==
    LET sym == S.R.Syms[i + 1]
        inHost == InMap(S.sp, sym.Name)
        atCode == WAdd(WInt(sym.Offset), S.sg.codeBase)
        atData == WAdd(WInt(sym.Offset), S.sg.dataBase)
    IN  IF sym.Offset = -1
        THEN IF inHost
             THEN [S EXCEPT !.sg.symAddrs[i + 1] = S.sp[sym.Name]]
             ELSE Diag([S EXCEPT !.sg.symAddrs[i + 1] = WMinusOne],
                       <<"unresolve external:", sym.Name>>)
        ELSE IF sym.Name = TLSNAME
        THEN [S EXCEPT !.sp = RegTLS(@, sym.Offset)]
        ELSE IF sym.Kind = STEXT
        THEN [S EXCEPT !.sg.symAddrs[i + 1] = atCode,
                       !.cm.Syms = MapSet(@, sym.Name, atCode)]
        ELSE IF HasPrefix(sym.Name, "go.itab")
        THEN IF inHost
             THEN [S EXCEPT !.sg.symAddrs[i + 1] = S.sp[sym.Name]]
             ELSE [S EXCEPT !.sg.itabMap = MapSet(@, sym.Name, i)]
        ELSE LET S1 == [S EXCEPT !.sg.symAddrs[i + 1] = atData]
                 S2 == IF HasPrefix(sym.Name, "type.func")
                       THEN [S1 EXCEPT !.sg.funcType = MapSet(@, sym.Name, i)]
                       ELSE S1
             IN  IF HasPrefix(sym.Name, "type.")
                 THEN IF inHost
                      THEN [S2 EXCEPT !.sg.symAddrs[i + 1] = S.sp[sym.Name]]
                      ELSE [S2 EXCEPT !.sg.typeSymPtr = MapSet(@, sym.Name, atData)]
                 ELSE S2

RECURSIVE addSymAddrsFrom(_, _)
addSymAddrsFrom(S, i) ==
    IF i >= Len(S.R.Syms) THEN S ELSE addSymAddrsFrom(addSymAddr(S, i), i + 1)

addSymAddrs(S) == addSymAddrsFrom(S, 0)

\* the body of addItab's loop for the pending table itabName
addItabOne(S, itabName) ==
    LET curSym == S.R.Syms[S.sg.itabMap[itabName] + 1]
        inter == S.sg.symAddrs[curSym.Reloc[1].SymOff + 1]
        type == S.sg.symAddrs[curSym.Reloc[2].SymOff + 1]
    IN  IF Len(curSym.Reloc) < 2 THEN Panic(S)
        ELSE IF inter = WMinusOne \/ type = WMinusOne THEN S
        ELSE [S EXCEPT !.sg.itabMap[itabName] = Len(S.cm.itabSyms),
                       !.cm.itabSyms = Append(@, [ptr |-> WZero, inter |-> inter,
                                                  type |-> type])]

\* addItab, ranging over seg.itabMap in the order names
RECURSIVE addItab(_, _)
addItab(S, names) ==
    IF names = <<>> \/ S.panic THEN S
    ELSE addItab(addItabOne(S, Head(names)), Tail(names))

\* the orders in which a range over a map with these keys may run
Orders(keys) ==
    {o \in [1..Cardinality(keys) -> keys] :
        \A i, j \in 1..Cardinality(keys) : i # j => o[i] # o[j]}

\* relocateItab's first loop: ptrs[i] is what getitab returns for entry i
setItabPtrs(S, ptrs) ==
    [S EXCEPT !.cm.itabSyms = [i \in 1..Len(@) |-> [@[i] EXCEPT !.ptr = ptrs[i]]]]

\* the body of relocateItab's second loop for the queued patch it
relocateItabOne(S, it) ==
    LET symAddr == S.cm.itabSyms[it.symOff + 1].ptr
        after == WAdd(S.sg.codeBase, WInt(it.locOff + it.size))
        offset == WAdd(WSub(symAddr, after), WInt(it.add))
        toLit == WAdd(WSub(WAdd(S.sg.codeBase, WInt(S.sg.offset)), after),
                      WInt(it.add))
    IN  IF it.symOff < 0 \/ it.symOff >= Len(S.cm.itabSyms) THEN Panic(S)
        ELSE IF symAddr = WZero THEN S
        ELSE CASE it.locType = R_PCREL ->
                    IF WGt(offset, W7fffffff) \/ WLt(offset, WNeg80000000)
                    THEN IF ~CanPut(S.cb, it.locOff, 4) THEN Panic(S)
                         ELSE LET S1 == [S EXCEPT !.cb = Put(@, it.locOff,
                                                             U32Bytes(toLit))]
                              IN  IF it.locOff - 2 < 0 THEN Panic(S1)
                                  ELSE LET S2 == [S1 EXCEPT !.cb[it.locOff - 1] = movcode]
                                       IN  IF S.sg.offset >= Len(S.cb) THEN Panic(S2)
                                           ELSE [S2 EXCEPT
                                                   !.cb = UnsafePtrPut(@, S.sg.offset, symAddr),
                                                   !.spill = @ \/ S.sg.offset + PtrSize
                                                                   > Len(S.cb),
                                                   !.sg.offset = @ + PtrSize]
                    ELSE IF CanPut(S.cb, it.locOff, 4)
                         THEN [S EXCEPT !.cb = Put(@, it.locOff, U32Bytes(offset))]
                         ELSE Panic(S)
               [] it.locType = R_ADDRARM64 ->
                    LET r == relocADRP(S.cb, it.locOff,
                                       WAdd(S.sg.codeBase, WInt(it.locOff)), symAddr)
                    IN  IF it.locOff > Len(S.cb) THEN Panic(S)
                        ELSE [S EXCEPT !.cb = r.b, !.panic = r.panic]
               [] OTHER -> S

RECURSIVE relocateItabFrom(_, _)
relocateItabFrom(S, k) ==
    IF k > Len(S.cm.itabs) \/ S.panic THEN S
    ELSE relocateItabFrom(relocateItabOne(S, S.cm.itabs[k]), k + 1)

relocateItab(S, ptrs) == relocateItabFrom(setItabPtrs(S, ptrs), 1)
(***************************************************************************)
(* Function Metadata Builder and Module Registry.                          *)
(***************************************************************************)
\* addFuncTab: the entry of function i is the resolved address of its symbol
addFuncTab(S, i) == [entry |-> S.sg.symAddrs[S.R.Mod.ftab[i].entry + 1]]

\* where buildModule pins the first sentinel: &seg.codeByte[0]
MinPc(S) == S.sg.codeBase

\* where buildModule pins the last sentinel: &seg.codeByte[len(code.Code)-1] + 2
MaxPc(S) == WAdd(WAdd(S.sg.codeBase, WInt(Len(S.R.Code) - 1)), WInt(2))

\* buildModule up to the registry insert: the moduledata with its function
\* table between the two sentinel entries
buildModuleData(S) ==
    [ftab |-> <<[entry |-> MinPc(S)]>>
              \o [i \in 1..Len(S.R.Mod.ftab) |-> addFuncTab(S, i)]
              \o <<[entry |-> MaxPc(S)]>>,
     minpc |-> MinPc(S),
     maxpc |-> MaxPc(S),
     text |-> S.sg.codeBase,
     etext |-> WAdd(S.sg.codeBase, WInt(Len(S.R.Code))),
     types |-> S.sg.codeBase,
     etypes |-> WAdd(S.sg.codeBase, WInt(S.sg.codeLen))]

\* the nodes of the host module list: the runtime's own, a module the host
\* has linked in before, and the moduledata of each process's Load
FirstModule == <<"firstmoduledata", 0>>
HostModule == <<"hostmodule", 0>>
Node(p) == <<"module", p>>
Nodes == {FirstModule, HostModule} \cup {Node(p) : p \in Procs}

\* the last node of the list that starts at datap
RECURSIVE LastNode(_, _)
LastNode(nx, datap) == IF nx[datap] = NIL THEN datap ELSE LastNode(nx, nx[datap])

\* addModule: append aModule at the tail of the host module list
addModule(nx, aModule) == [nx EXCEPT ![LastNode(nx, FirstModule)] = aModule]

\* removeModule's walk from datap with predecessor prevp
RECURSIVE removeFrom(_, _, _, _)
removeFrom(nx, prevp, datap, m) ==
    IF datap = NIL THEN nx
    ELSE IF datap = m THEN [nx EXCEPT ![prevp] = nx[datap]]
    ELSE removeFrom(nx, datap, nx[datap], m)

\* an unlink that makes the head of the list point at m's successor
removeModuleAtHead(nx, m) == [nx EXCEPT ![FirstModule] = nx[m]]

\* removeModule: unlink the node m from the host module list
removeModule(nx, m) == removeFrom(nx, FirstModule, FirstModule, m)

\* the nodes a traversal of the host module list meets, in order
RECURSIVE Walk(_, _)
Walk(nx, datap) == IF datap = NIL THEN <<>> ELSE <<datap>> \o Walk(nx, nx[datap])

(***************************************************************************)
(* Load.                                                                   *)
(***************************************************************************)
SOf(p) ==
    [R |-> reloc[p], sg |-> seg[p], cm |-> codeModule[p], cb |-> codeByte[p],
     sp |-> symPtr[p], panic |-> FALSE, spill |-> FALSE]

\* the state of p after a step of Load that leaves it in S, at position to
Commit(p, S, to, ev) ==
    /\ reloc' = [reloc EXCEPT ![p] = S.R]
    /\ seg' = [seg EXCEPT ![p] = S.sg]
    /\ codeModule' = [codeModule EXCEPT ![p] = S.cm]
    /\ codeByte' = [codeByte EXCEPT ![p] = S.cb]
    /\ symPtr' = [symPtr EXCEPT ![p] = S.sp]
    /\ pc' = [pc EXCEPT ![p] = IF S.panic THEN "panic" ELSE to]
    /\ hist' = [hist EXCEPT ![p].spill = @ \/ S.spill, ![p].sites = @ \o ev]

NoSeg ==
    [codeBase |-> WZero, dataBase |-> WZero, codeLen |-> 0, maxCodeLen |-> 0,
     offset |-> 0, symAddrs |-> <<>>, itabMap |-> <<>>, funcType |-> <<>>,
     typeSymPtr |-> <<>>, err |-> <<>>]

NoModule ==
    [Syms |-> <<>>, CodeByte |-> FALSE, Module |-> NIL, itabs |-> <<>>,
     itabSyms |-> <<>>]

\* Load up to the allocation, when Mmap returns a region
LoadMmap(p) ==
    /\ pc[p] = "Load"
    /\ LET codeLen == Len(reloc[p].Code) + Len(reloc[p].Data)
       IN  /\ seg' = [seg EXCEPT ![p] =
                [NoSeg EXCEPT !.codeLen = codeLen,
                              !.maxCodeLen = codeLen * 2,
                              !.codeBase = MmapBase(p),
                              !.dataBase = WAdd(MmapBase(p), WInt(Len(reloc[p].Code))),
                              !.symAddrs = [i \in 1..Len(reloc[p].Syms) |-> WZero],
                              !.offset = codeLen]]
           /\ codeByte' = [codeByte EXCEPT ![p] = Zeros(codeLen * 2)]
    /\ codeModule' = [codeModule EXCEPT ![p] = NoModule]
    /\ pc' = [pc EXCEPT ![p] = "addSymAddrs"]
    /\ hist' = [hist EXCEPT ![p].mapped = TRUE]
    /\ UNCHANGED <<obj, symPtr, buildVars, relocPos, module, ret, regVars>>

\* Load when Mmap fails: return nil and the error
LoadMmapFail(p) ==
    /\ pc[p] = "Load"
    /\ ret' = [ret EXCEPT ![p] = [cm |-> FALSE, err |-> TRUE]]
    /\ pc' = [pc EXCEPT ![p] = "LoadFailed"]
    /\ UNCHANGED <<obj, symPtr, buildVars, seg, relocPos, codeByte, codeModule,
                   module, regVars, hist>>

LoadAddSymAddrs(p) ==
    /\ pc[p] = "addSymAddrs"
    /\ Commit(p, addSymAddrs(SOf(p)), "addItab", <<>>)
    /\ UNCHANGED <<obj, symMap, stack, rootIdx, relocPos, module, ret, regVars>>

LoadAddItab(p) ==
    /\ pc[p] = "addItab"
    /\ \E o \in Orders(DOMAIN seg[p].itabMap) :
          Commit(p, addItab(SOf(p), o), "relocate", <<>>)
    /\ relocPos' = [relocPos EXCEPT ![p] = <<1, 1>>]
    /\ UNCHANGED <<obj, symMap, stack, rootIdx, module, ret, regVars>>

\* relocate's loops: the first position at or after <<i, j>> that holds a
\* relocation, or <<Len(Syms) + 1, 1>> past the last
RECURSIVE SiteFrom(_, _, _)
SiteFrom(Syms, i, j) ==
    IF i > Len(Syms) THEN <<i, 1>>
    ELSE IF j <= Len(Syms[i].Reloc) THEN <<i, j>>
    ELSE SiteFrom(Syms, i + 1, 1)

\* what relocate did at the site loc of curSym, from S0 to S1: the resolved
\* address and the site's end address before, the site's bytes, the region
\* and the bump offset after; for a site whose patch was deferred, the index
\* the queued patch carries, the descriptors of the table the site names and
\* the module's constructed entries
SiteEvent(S0, S1, curSym, loc) ==
    LET isText == curSym.Kind = STEXT
        addr == S0.sg.symAddrs[loc.SymOff + 1]
        named == S0.R.Syms[loc.SymOff + 1]
        queued == Len(S1.cm.itabs) > Len(S0.cm.itabs)
    IN  [Type |-> loc.Type,
         queued |-> queued,
         symOff |-> IF queued THEN S1.cm.itabs[Len(S1.cm.itabs)].symOff ELSE -1,
         want |-> IF queued /\ Len(named.Reloc) >= 2
                  THEN <<S0.sg.symAddrs[named.Reloc[1].SymOff + 1],
                         S0.sg.symAddrs[named.Reloc[2].SymOff + 1]>>
                  ELSE <<>>,
         itabSyms |-> [i \in 1..Len(S1.cm.itabSyms) |->
                          <<S1.cm.itabSyms[i].inter, S1.cm.itabSyms[i].type>>],
         Sym |-> S0.R.Syms[loc.SymOff + 1].Name,
         inText |-> isText,
         resolved |-> addr # WMinusOne
                      /\ ~(addr = WZero
                           /\ HasPrefix(S0.R.Syms[loc.SymOff + 1].Name, "go.itab")),
         addr |-> addr,
         add |-> loc.Add,
         siteEnd |-> WAdd(IF isText THEN S0.sg.codeBase ELSE S0.sg.dataBase,
                          WInt(loc.Offset + loc.Size)),
         codeBase |-> S0.sg.codeBase,
         codeLen |-> S0.sg.codeLen,
         maxCodeLen |-> S0.sg.maxCodeLen,
         before |-> S0.sg.offset,
         after |-> S1.sg.offset,
         site |-> SubSeq(Blob(S1.R, isText), loc.Offset + 1,
                         Min(loc.Offset + loc.Size, Len(Blob(S1.R, isText)))),
         region |-> S1.cb,
         diag |-> Len(S1.sg.err) > Len(S0.sg.err),
         panic |-> S1.panic]

\* relocate: patch the next relocation site
Relocate(p) ==
    /\ pc[p] = "relocate"
    /\ LET at == SiteFrom(reloc[p].Syms, relocPos[p][1], relocPos[p][2])
       IN  /\ at[1] <= Len(reloc[p].Syms)
           /\ LET curSym == reloc[p].Syms[at[1]]
                  loc == curSym.Reloc[at[2]]
                  S1 == relocateSite(SOf(p), curSym, loc)
              IN  Commit(p, S1, "relocate", <<SiteEvent(SOf(p), S1, curSym, loc)>>)
           /\ relocPos' = [relocPos EXCEPT ![p] = <<at[1], at[2] + 1>>]
    /\ UNCHANGED <<obj, symMap, stack, rootIdx, module, ret, regVars>>

\* relocate returns after the last site
RelocateDone(p) ==
    /\ pc[p] = "relocate"
    /\ SiteFrom(reloc[p].Syms, relocPos[p][1], relocPos[p][2])[1] > Len(reloc[p].Syms)
    /\ pc' = [pc EXCEPT ![p] = "buildModule"]
    /\ UNCHANGED <<obj, symPtr, buildVars, loadVars, regVars, hist>>

\* buildModule up to modulesLock.Lock()
BuildModule(p) ==
    /\ pc[p] = "buildModule"
    /\ module' = [module EXCEPT ![p] = buildModuleData(SOf(p))]
    /\ pc' = [pc EXCEPT ![p] =
            IF Len(codeByte[p]) = 0 \/ Len(reloc[p].Code) = 0 THEN "panic"
            ELSE "lockAdd"]
    /\ UNCHANGED <<obj, symPtr, buildVars, seg, relocPos, codeByte, codeModule, ret,
                   regVars, hist>>

LockAdd(p) ==
    /\ pc[p] = "lockAdd"
    /\ modulesLock = <<>>
    /\ modulesLock' = <<p>>
    /\ pc' = [pc EXCEPT ![p] = "addModule"]
    /\ UNCHANGED <<obj, symPtr, buildVars, loadVars, next, modules, hist>>

\* addModule(codeModule, &module), under the lock
AddModule(p) ==
    /\ pc[p] = "addModule"
    /\ modules' = modules \cup {Node(p)}
    /\ next' = addModule(next, Node(p))
    /\ codeModule' = [codeModule EXCEPT ![p].Module = Node(p)]
    /\ pc' = [pc EXCEPT ![p] = "unlockAdd"]
    /\ hist' = [hist EXCEPT
                    ![p].atInsert = [cb |-> codeByte[p], module |-> module[p]],
                    ![p].stamp = 1 + Cardinality({q \in Procs : hist[q].stamp > 0})]
    /\ UNCHANGED <<obj, symPtr, buildVars, seg, relocPos, codeByte, module, ret,
                   modulesLock>>

UnlockAdd(p) ==
    /\ pc[p] = "unlockAdd"
    /\ modulesLock' = <<>>
    /\ pc' = [pc EXCEPT ![p] = "copy"]
    /\ UNCHANGED <<obj, symPtr, buildVars, loadVars, next, modules, hist>>

\* buildModule after the insert: copy the blobs into the region
CopyCode(p) ==
    /\ pc[p] = "copy"
    /\ codeByte' = [codeByte EXCEPT ![p] =
            CopyAt(CopyAt(@, 0, reloc[p].Code), Len(reloc[p].Code), reloc[p].Data)]
    /\ codeModule' = [codeModule EXCEPT ![p].CodeByte = TRUE]
    /\ pc' = [pc EXCEPT ![p] = "relocateItab"]
    /\ UNCHANGED <<obj, symPtr, buildVars, seg, relocPos, module, ret, regVars, hist>>

\* relocateItab: ask the host for every table, then apply the queued patches
RelocateItab(p) ==
    /\ pc[p] = "relocateItab"
    /\ \E ptrs \in [1..Len(codeModule[p].itabSyms) -> ItabPtrs(p)] :
          Commit(p, relocateItab(SOf(p), ptrs), "return", <<>>)
    /\ UNCHANGED <<obj, symMap, stack, rootIdx, relocPos, module, ret, regVars>>

\* Load returns the module, and an error if any diagnostic was written
LoadReturn(p) ==
    /\ pc[p] = "return"
    /\ ret' = [ret EXCEPT ![p] = [cm |-> TRUE, err |-> Len(seg[p].err) > 0]]
    /\ pc' = [pc EXCEPT ![p] = "Loaded"]
    /\ UNCHANGED <<obj, symPtr, buildVars, seg, relocPos, codeByte, codeModule,
                   module, regVars, hist>>

\* an unchecked store past the end of its slice may bring the process down
Fault(p) ==
    /\ hist[p].spill
    /\ pc[p] \in {"relocate", "buildModule", "lockAdd", "copy", "relocateItab",
                  "return", "Loaded"}
    /\ pc' = [pc EXCEPT ![p] = "fault"]
    /\ UNCHANGED <<obj, symPtr, buildVars, loadVars, regVars, hist>>

(***************************************************************************)
(* Unload.                                                                 *)
(***************************************************************************)
\* runtime.GC()
UnloadGC(p) ==
    /\ pc[p] = "Loaded"
    /\ pc' = [pc EXCEPT ![p] = "lockRemove"]
    /\ hist' = [hist EXCEPT ![p].unload = Append(@, "collect")]
    /\ UNCHANGED <<obj, symPtr, buildVars, loadVars, regVars>>

LockRemove(p) ==
    /\ pc[p] = "lockRemove"
    /\ modulesLock = <<>>
    /\ modulesLock' = <<p>>
    /\ pc' = [pc EXCEPT ![p] = "removeModule"]
    /\ UNCHANGED <<obj, symPtr, buildVars, loadVars, next, modules, hist>>

\* removeModule(cm.Module), under the lock
RemoveModule(p) ==
    /\ pc[p] = "removeModule"
    /\ next' = removeModule(next, codeModule[p].Module)
    /\ modules' = modules \ {codeModule[p].Module}
    /\ pc' = [pc EXCEPT ![p] = "unlockRemove"]
    /\ hist' = [hist EXCEPT ![p].unload = Append(@, "unlink")]
    /\ UNCHANGED <<obj, symPtr, buildVars, loadVars, modulesLock>>

UnlockRemove(p) ==
    /\ pc[p] = "unlockRemove"
    /\ modulesLock' = <<>>
    /\ pc' = [pc EXCEPT ![p] = "munmap"]
    /\ UNCHANGED <<obj, symPtr, buildVars, loadVars, next, modules, hist>>

\* Munmap(cm.CodeByte)
UnloadMunmap(p) ==
    /\ pc[p] = "munmap"
    /\ codeByte' = [codeByte EXCEPT ![p] = <<>>]
    /\ pc' = [pc EXCEPT ![p] = "Unloaded"]
    /\ hist' = [hist EXCEPT ![p].unload = Append(@, "unmap"), ![p].mapped = FALSE]
    /\ UNCHANGED <<obj, symPtr, buildVars, seg, relocPos, codeModule, module, ret,
                   regVars>>
(***************************************************************************)
(* Properties.                                                             *)
(***************************************************************************)
\* the processes whose module is in the registry: inserted, not yet unlinked
Linked == {p \in Procs : hist[p].stamp > 0 /\ ~InSeq("unlink", hist[p].unload)}

\* the nodes of the processes ps in the order of their inserts
RECURSIVE ByStamp(_)
ByStamp(ps) ==
    IF ps = {} THEN <<>>
    ELSE LET m == CHOOSE p \in ps : \A q \in ps : hist[p].stamp <= hist[q].stamp
         IN  <<Node(m)>> \o ByStamp(ps \ {m})

\* C1: under every interleaving of Loads and Unloads of distinct modules, a
\* traversal of the host module list meets the nodes that were there before,
\* in their original order, followed by exactly the modules inserted and not
\* yet unlinked, each once, in the order of their inserts; so a Load followed
\* by its Unload leaves the list as it was, and no traversal meets an
\* unlinked node.
C1_RegistryOrder ==
    /\ Walk(next, FirstModule) = hist[1].host \o ByStamp(Linked)
    /\ \A p \in Procs :
          InSeq("unlink", hist[p].unload) => ~InSeq(Node(p), Walk(next, FirstModule))

\* two modules were inserted behind a host module, and the one inserted first
\* has been unlinked from the middle of the list
C1_Witness ==
    /\ hist[1].host = <<FirstModule, HostModule>>
    /\ hist[1].stamp = 1
    /\ hist[2].stamp = 2
    /\ InSeq("unlink", hist[1].unload)
    /\ InSeq(Node(2), Walk(next, FirstModule))

\* C2: from the registry insert on, the region and the published moduledata
\* are what they were at the insert: the region already held the final bytes,
\* and no later step of Load writes to either.
C2_NoPartialPublish ==
    \A p \in Procs :
        hist[p].stamp > 0 /\ hist[p].mapped =>
            /\ codeByte[p] = hist[p].atInsert.cb
            /\ module[p] = hist[p].atInsert.module

\* C3: the steps of every Unload run in the order unlink, collect, unmap.
C3_UnlinkCollectUnmap ==
    \A p \in Procs : IsPrefixSeq(hist[p].unload, <<"unlink", "collect", "unmap">>)

\* d fits a signed 32-bit displacement
Fits32(d) == ~WGt(d, W7fffffff) /\ ~WLt(d, WNeg80000000)

\* the displacement from the end of the site of event e to its target
Disp(e) == WAdd(WSub(e.addr, e.siteEnd), WInt(e.add))

\* the events of relocate at R_CALL sites with a resolved target
CallEvents ==
    {e \in UNION {{hist[p].sites[i] : i \in 1..Len(hist[p].sites)} : p \in Procs} :
        e.Type = R_CALL /\ e.resolved}

\* C4: at every R_CALL site with a resolved target, the displacement is
\* encoded directly and the bump offset stays where it was exactly when the
\* displacement fits the signed 32-bit range.
C4_ExactBoundary ==
    \A e \in CallEvents :
        (e.after = e.before /\ e.site = U32Bytes(Disp(e))) <=> Fits32(Disp(e))

\* C5: the bump offset of every Load stays between the combined blob length
\* and the trampoline capacity, and no stub or literal byte is stored at or
\* past the capacity.
C5_TrampolineCapped ==
    \A p \in Procs :
        /\ seg[p].codeLen <= seg[p].offset
        /\ seg[p].offset <= seg[p].maxCodeLen
        /\ ~hist[p].spill

\* the events at R_CALL sites whose displacement overflows while the
\* trampoline area has room for a stub
StubEvents ==
    {e \in CallEvents :
        ~Fits32(Disp(e)) /\ e.before + 6 + PtrSize <= e.maxCodeLen}

\* C6: at every R_CALL site whose displacement overflows, with room for a
\* stub, the site's displacement leads to the stub at the former bump offset
\* inside the trampoline area, the stub is the indirect jump followed by the
\* full target address (with the addend), and the bump offset advances by
\* the stub's length.
C6_CallTrampoline ==
    \A e \in StubEvents :
        /\ ~e.panic
        /\ ~e.diag
        /\ e.codeLen <= e.before
        /\ e.site = U32Bytes(WSub(WAdd(e.codeBase, WInt(e.before)), e.siteEnd))
        /\ SubSeq(e.region, e.before + 1, e.before + 6) = <<255, 37, 0, 0, 0, 0>>
        /\ SubSeq(e.region, e.before + 7, e.before + 6 + PtrSize)
              = U64Bytes(WAdd(e.addr, WInt(e.add)))
        /\ e.after = e.before + 6 + PtrSize

\* a call of the host function 5 GiB away got its stub
C6_Witness ==
    \E e \in StubEvents :
        /\ e.Sym = "h6"
        /\ e.add = 0
        /\ e.addr = HostAddr("h6")
        /\ Disp(e) = <<81920, 0>>

\* every symbol of p's image is defined in a compilation unit
AllInternal(p) == \A i \in 1..Len(reloc[p].Syms) : reloc[p].Syms[i].Kind # Sxxx

\* C7: after Load of an image whose symbols are all internal, the function
\* table is in ascending order of address, its first entry is the start of
\* the code region, its last entry is one past the end of the code region,
\* and every function's entry lies between the two.
C7_FuncTabSentinels ==
    \A p \in Procs :
        pc[p] = "Loaded" /\ AllInternal(p) =>
            LET ft == module[p].ftab
                n == Len(ft)
                first == seg[p].codeBase
                last == WAdd(seg[p].codeBase, WInt(Len(reloc[p].Code)))
            IN  /\ n >= 2
                /\ ft[1].entry = first
                /\ ft[n].entry = last
                /\ \A i \in 1..(n - 1) : ~WGt(ft[i].entry, ft[i + 1].entry)
                /\ \A i \in 2..(n - 1) :
                      ~WLt(ft[i].entry, first) /\ WLt(ft[i].entry, last)

\* C8: once the allocation has succeeded Load returns, with the module
\* published and an error exactly when a diagnostic was written; when the
\* allocation fails Load returns no module and an error, and the registry is
\* as it was.
C8_LoadReturns ==
    \A p \in Procs :
        /\ pc[p] \notin {"panic", "fault"}
        /\ pc[p] = "Loaded" =>
              /\ ret[p].cm
              /\ InSeq(Node(p), Walk(next, FirstModule))
              /\ ret[p].err <=> Len(seg[p].err) > 0
        /\ pc[p] = "LoadFailed" =>
              /\ ~ret[p].cm
              /\ ret[p].err
              /\ Walk(next, FirstModule) = hist[p].host

\* C9: from the return of ReadObjs on, the CodeReloc is what ReadObjs
\* returned: Load changes no byte of its blobs and none of its records.
C9_ImageImmutable ==
    \A p \in Procs : pc[p] \notin {"ReadObjs", "off"} => reloc[p] = hist[p].image

\* the symbols unit u defines that the names in names refer to
Targets(u, names) ==
    UNION {{u.allSyms[n].Reloc[k].Sym : k \in 1..Len(u.allSyms[n].Reloc)} : n \in names}
        \cap DOMAIN u.allSyms

\* the symbols of unit u reachable from the names in names
RECURSIVE Closure(_, _)
Closure(u, names) ==
    IF Targets(u, names) \subseteq names THEN names
    ELSE Closure(u, names \cup Targets(u, names))

Reachable(u) == Closure(u, {n \in DOMAIN u.allSyms : IsRoot(u.allSyms[n])})

RECURSIVE SumRelocs(_, _)
SumRelocs(u, names) ==
    IF names = {} THEN 0
    ELSE LET n == CHOOSE x \in names : TRUE
         IN  2 + Len(u.allSyms[n].Reloc) + SumRelocs(u, names \ {n})

\* a bound on the steps of ReadObjs, linear in the size of the unit
StepBound(u) == Len(u.Syms) + 1 + SumRelocs(u, DOMAIN u.allSyms)

\* the CodeReloc R holds the reachable symbol n of unit u once, with the
\* bytes of n appended once, at the offset R records for n
InternedOnce(u, R, sm, appends, n) ==
    LET at == {i \in 1..Len(R.Syms) : R.Syms[i].Name = n}
        logged == {k \in 1..Len(appends) : appends[k].name = n}
        isText == u.allSyms[n].Kind = STEXT
    IN  /\ Cardinality(at) = 1
        /\ Cardinality(logged) = 1
        /\ \A i \in at, k \in logged :
              /\ sm[n] = i - 1
              /\ R.Syms[i].Kind = u.allSyms[n].Kind
              /\ appends[k].blob = (IF isText THEN "Code" ELSE "Data")
              /\ R.Syms[i].Offset = appends[k].off
              /\ appends[k].bytes = u.allSyms[n].Data
              /\ SubSeq(Blob(R, isText), R.Syms[i].Offset + 1,
                        R.Syms[i].Offset + Len(u.allSyms[n].Data))
                    = u.allSyms[n].Data

\* C10: the closure terminates: ReadObjs takes no more steps than a bound
\* linear in the unit, and its recursion is no deeper than the number of
\* symbols the unit defines; when it has returned, every reachable symbol of the unit has exactly one entry in the
\* symbol table, and its bytes were appended exactly once, to the code blob
\* if it is a text symbol and to the data blob if not, at the offset recorded
\* for it, which was the length of that blob before the append.
C10_ClosureTerminates ==
    \A p \in Procs :
        /\ pc[p] = "ReadObjs" =>
              /\ hist[p].steps < StepBound(obj[p])
              /\ Len(stack[p]) <= Cardinality(DOMAIN obj[p].allSyms)
        /\ pc[p] = "Load" =>
              /\ hist[p].steps <= StepBound(obj[p])
              /\ \A n \in Reachable(obj[p]) :
                    InternedOnce(obj[p], reloc[p], symMap[p], hist[p].appends, n)

\* ReadObjs has returned from a unit with the cycle main.f -> main.g ->
\* main.f and the self-reference of type.T
C10_Witness ==
    \E p \in Procs :
        /\ pc[p] = "Load"
        /\ Reachable(obj[p]) = {"main.f", "main.g", "type.T"}
        /\ Len(reloc[p].Syms) = 3
        /\ Len(hist[p].appends) = 3

\* the events of relocSym at a relocation target
SiteEvents ==
    UNION {{hist[p].sites[i] : i \in 1..Len(hist[p].sites)} : p \in Procs}

\* the 4 KiB page of an address
PageOf(a) == <<a[1], a[2] - (a[2] % 4096)>>

AdrpEvents ==
    {e \in SiteEvents :
        /\ e.Type = R_ADDRARM64
        /\ e.inText
        /\ e.resolved
        /\ ~e.panic
        /\ Len(e.site) = 8
        /\ Fits32(WSub(PageOf(e.addr), PageOf(WSub(e.siteEnd, WInt(8)))))}

\* the address an adrp/add pair at pcAddr computes: the adrp's immhi:immlo
\* (bits 5-23 and 29-30), sign-extended from 21 bits, counts 4 KiB pages from
\* pcAddr's page; the add's imm12 (bits 10-21) is the offset within the page
AdrpDecode(site, pcAddr) ==
    LET immlo == (site[4] \div 32) % 4
        immhi == (site[1] + 256 * site[2] + 65536 * site[3]) \div 32
        imm21 == immhi * 4 + immlo
        pages == IF imm21 >= 1048576 THEN imm21 - 2097152 ELSE imm21
        imm12 == ((site[5] + 256 * site[6] + 65536 * site[7]) \div 1024) % 4096
    IN  WAdd(PageOf(pcAddr), WNorm(pages \div 16, (pages % 16) * 4096 + imm12))

\* C12: after relocADRP has patched an adrp/add pair whose immediate fields
\* were zero, with the target's page within the directly encodable distance
\* of the site's page, decoding the pair gives the target address: the page
\* of the site plus the sign-extended 21-bit page count times 4096 plus the
\* 12-bit immediate of the add.
C12_AdrpRoundTrip ==
    \A e \in AdrpEvents :
        AdrpDecode(e.site, WSub(e.siteEnd, WInt(8))) = e.addr

\* C13: every interface-table patch that relocate queues carries an index
\* that is a position in the module's constructed interface-table entries, and
\* the entry at that position is the one built from the interface and type
\* descriptors of the table the site names, also when addItab skipped the
\* table because one of its descriptors is unresolved.
C13_ItabPatchIndex ==
    \A e \in SiteEvents :
        e.queued =>
            /\ e.symOff >= 0
            /\ e.symOff < Len(e.itabSyms)
            /\ e.itabSyms[e.symOff + 1] = e.want

InternEvents ==
    UNION {{hist[p].interns[i] : i \in 1..Len(hist[p].interns)} : p \in Procs}

\* C11: when relocSym meets a name that is in the symbol table already, be
\* it defined in a unit or external, it returns the index the name has and
\* leaves the length of the table, the offset recorded for the name and both
\* blobs as they were.
C11_InternIdempotent ==
    \A e \in InternEvents :
        e.known =>
            /\ e.idx = e.idxBefore
            /\ e.lenAfter = e.lenBefore
            /\ e.offAfter = e.offBefore
            /\ e.codeAfter = e.codeBefore
            /\ e.dataAfter = e.dataBefore

(***************************************************************************)
(* Specifications.                                                         *)
(***************************************************************************)
NoReloc == [Code |-> <<>>, Data |-> <<>>, Syms |-> <<>>, Mod |-> [ftab |-> <<>>]]

NoModuleData ==
    [ftab |-> <<>>, minpc |-> WZero, maxpc |-> WZero, text |-> WZero,
     etext |-> WZero, types |-> WZero, etypes |-> WZero]

\* hist[p]:
\*   steps     the steps of ReadObjs/relocSym p has taken
\*   appends   the appends to a blob relocSym made, in order
\*   interns   what relocSym did at each relocation target that was interned
\*             already or that no unit defines, in order
\*   image     the CodeReloc as ReadObjs returned it
\*   sites     what relocate did at each site, in order
\*   spill     an unchecked store of p wrote past the end of its slice
\*   mapped    p holds a region from Mmap
\*   host      the host module list when p started
\*   stamp     the rank of p's registry insert among all inserts (0: none)
\*   atInsert  the region and the moduledata at p's registry insert
\*   unload    the steps of Unload p has taken, in order
NoHist ==
    [steps |-> 0, appends |-> <<>>, interns |-> <<>>, image |-> NoReloc, sites |-> <<>>,
     spill |-> FALSE, mapped |-> FALSE, host |-> <<>>, stamp |-> 0,
     atInsert |-> [cb |-> <<>>, module |-> NoModuleData], unload |-> <<>>]

HostSymPtr == [n \in HostSyms |-> HostAddr(n)]

\* the host module lists a process may find: the runtime's module alone, or
\* followed by one more module
HostLists ==
    {[n \in Nodes |-> NIL],
     [n \in Nodes |-> IF n = FirstModule THEN HostModule ELSE NIL]}

\* every process in active starts ReadObjs on the unit units[p]
InitWith(active, units, hostList) ==
    /\ pc = [p \in Procs |-> IF p \in active THEN "ReadObjs" ELSE "off"]
    /\ obj = units
    /\ symPtr = [p \in Procs |-> HostSymPtr]
    /\ reloc = [p \in Procs |-> NoReloc]
    /\ symMap = [p \in Procs |-> <<>>]
    /\ stack = [p \in Procs |-> <<>>]
    /\ rootIdx = [p \in Procs |-> 1]
    /\ seg = [p \in Procs |-> NoSeg]
    /\ relocPos = [p \in Procs |-> <<1, 1>>]
    /\ codeByte = [p \in Procs |-> <<>>]
    /\ codeModule = [p \in Procs |-> NoModule]
    /\ module = [p \in Procs |-> NoModuleData]
    /\ ret = [p \in Procs |-> [cm |-> FALSE, err |-> FALSE]]
    /\ next = hostList
    /\ modules = {}
    /\ modulesLock = <<>>
    /\ hist = [p \in Procs |-> [NoHist EXCEPT !.host = Walk(hostList, FirstModule)]]

\* main.f of the units the concurrent processes load: one call of main.g
CallG == [pre |-> <<144, 232>>, site |-> <<0, 0, 0, 0>>, Type |-> R_CALL,
          Sym |-> "main.g", Add |-> 0]

\* main.f of the unit the first process loads: one ARM branch to a far host
\* function
BranchH6 == [pre |-> <<31, 32>>, site |-> <<0, 0, 0, 235>>, Type |-> R_CALLARM,
             Sym |-> "h6", Add |-> 0]

\* every process loads and unloads its own image, concurrently
Init ==
    \E hostList \in HostLists :
        InitWith(Procs,
                 [p \in Procs |-> IF p = 1 THEN Unit(<<BranchH6>>) ELSE Unit(<<CallG>>)],
                 hostList)

\* one process loads an image whose main.f holds up to MaxSites sites
InitLoad ==
    \E sites \in SiteSeqs(MaxSites) :
        InitWith({1}, [p \in Procs |-> Unit(sites)], [n \in Nodes |-> NIL])

Next ==
    \E p \in Procs :
        \/ ReadObjsNext(p)
        \/ RelocSymRecurse(p)
        \/ RelocSymVisited(p)
        \/ RelocSymExternal(p)
        \/ RelocSymReturn(p)
        \/ ReadObjsReturn(p)
        \/ LoadMmap(p)
        \/ LoadMmapFail(p)
        \/ LoadAddSymAddrs(p)
        \/ LoadAddItab(p)
        \/ Relocate(p)
        \/ RelocateDone(p)
        \/ BuildModule(p)
        \/ LockAdd(p)
        \/ AddModule(p)
        \/ UnlockAdd(p)
        \/ CopyCode(p)
        \/ RelocateItab(p)
        \/ LoadReturn(p)
        \/ Fault(p)
        \/ UnloadGC(p)
        \/ LockRemove(p)
        \/ RemoveModule(p)
        \/ UnlockRemove(p)
        \/ UnloadMunmap(p)

Spec == Init /\ [][Next]_vars

SpecLoad == InitLoad /\ [][Next]_vars
====
